---- MODULE Spec2Model ----
(***************************************************************************)
(* Transaction synthesis of Transactions_Docker: the decomposition of a    *)
(* daily total into amounts (utils.generate_random_transactions_CTA), the  *)
(* per-day loop of steps.synthetic_data_steps.generate_transactions and    *)
(* the delete-then-insert replacement of                                   *)
(* steps.synthetic_data_steps.save_transactions_data_to_mongodb; also, on  *)
(* their own, steps.synthetic_data_steps.modify_forecasts (SpecModify) and *)
(* utils.create_transactions_one_day (SpecAssign).                         *)
(*                                                                         *)
(* A run of the synthetic data pipeline is a process p \in Procs.  Every   *)
(* local variable of the code is a function of the process; the MongoDB    *)
(* collection "synthetic_Transactions" is shared.  Forecast values are     *)
(* integers.  A store call (ping, delete_many, insert_many) either takes   *)
(* effect as a whole and returns, or raises and leaves the collection as   *)
(* it was.                                                                 *)
(***************************************************************************)
EXTENDS Integers, Sequences, FiniteSets, TLC

\* ------------------------------------------------------------------ bounds
\* Arguments of generate_random_transactions_CTA explored by SpecCTA:
\* target_number in -MaxNegTarget..MaxTarget, divisor in -MaxNegCount..MaxCount.
MaxTarget == 20
MaxNegTarget == 2
MaxCount == 6
MaxNegCount == 1
\* Days of the forecast series (config['utils']['days'] in the deployment).
NumDays == 2

\* The runs of the pipeline (two calls of main()).
Procs == {1, 2}

\* Adjusted forecast points <<CTA_forecast, transactions_per_day_forecast>> a
\* day of the series is drawn from: one record, two records, three records,
\* a total smaller than the count, a zero count, a negative count.
ForecastSamples ==
    {<<3, 1>>, <<2, 2>>, <<3, 3>>, <<2, 3>>, <<2, 0>>, <<3, -1>>}

\* Times of day <<hour, minute, second>> the random draws of
\* create_transactions_one_day are sampled from.
TimeSamples == {<<0, 0, 0>>, <<23, 59, 59>>}

VARIABLES
    forecast,         \* combined_df: the adjusted forecast series, one row per day
    pc,               \* pc[p]: where run p is
    idx,              \* idx[p]: the loop index of generate_transactions / iterrows
    gen_transactions, \* gen_transactions[p]: the 'transactions' column (a list per day)
    gen_caught,       \* gen_caught[p]: per day, what the call of that day printed
    cta_count,        \* cta_count[p]: the divisor argument of the current call
    target_number,    \* locals of generate_random_transactions_CTA
    divisor,
    current_value,
    transactions,
    caught,           \* caught[p]: the exception its except clause printed, or "none"
    outcome,          \* outcome[p]: what save_transactions_data_to_mongodb printed last
    collection,       \* the documents of the destination collection, in insertion order
    oplog,            \* the store's log of the writes it applied
    df,               \* modify_forecasts: the frame, a column name |-> its values
    df_in,            \* the frame as it was passed to modify_forecasts
    trx_add,          \* the arguments of modify_forecasts
    trx_mul,
    CTA_add,
    CTA_mul,
    mf_pc,            \* where the call of modify_forecasts is
    mf_printed,       \* the column of the KeyError its except clause printed, or "none"
    ctod_date,        \* create_transactions_one_day: the date argument
    ctod_lists,       \* the transaction_lists argument
    ctod_df,          \* the frame it returned
    ctod_pc           \* "call" before the call, "return" after it

vars == <<forecast, pc, idx, gen_transactions, gen_caught, cta_count, target_number, divisor,
          current_value, transactions, caught, outcome, collection, oplog,
          df, df_in, trx_add, trx_mul, CTA_add, CTA_mul, mf_pc, mf_printed,
          ctod_date, ctod_lists, ctod_df, ctod_pc>>

ctaVars == <<cta_count, target_number, divisor, current_value, transactions, caught>>

mfVars == <<df, df_in, trx_add, trx_mul, CTA_add, CTA_mul, mf_pc, mf_printed>>

ctodVars == <<ctod_date, ctod_lists, ctod_df, ctod_pc>>

\* The variables of the pipeline runs and of the store.
runVars == <<forecast, pc, idx, gen_transactions, gen_caught, ctaVars, outcome, collection,
             oplog>>

\* ----------------------------------------------------------------- helpers
RECURSIVE Sum(_)
Sum(s) == IF s = <<>> THEN 0 ELSE Head(s) + Sum(Tail(s))

\* The quotient rounded up instead of truncated.
IntOfQuotientCeil(value, d) == -((-value) \div d)

\* int(current_value / divisor) for divisor > 0: true division, then
\* truncation toward zero.
IntOfQuotient(value, d) ==
    IF value >= 0 THEN value \div d ELSE -((-value) \div d)

\* random.randint(1, hi): the values it can return; the empty set when it
\* raises ValueError (hi < 1).
Randint(lo, hi) == lo .. hi

\* first_part as a half instead of a quarter.
FirstPartHalf(remaining_value) == remaining_value \div 2

\* first_part = remaining_value // 4
FirstPart(remaining_value) == remaining_value \div 4

\* second_part with the operands of the subtraction exchanged.
SecondPartReversed(remaining_value, first_part) == first_part - remaining_value

\* second_part = remaining_value - first_part
SecondPart(remaining_value, first_part) == remaining_value - first_part

\* ------------------------------------------ generate_random_transactions_CTA
\* One iteration of `while divisor > 2` whose draw succeeds.
CTADraw(p) ==
    /\ pc[p] = "cta_loop"
    /\ divisor[p] > 2
    /\ \E random_number \in Randint(1, IntOfQuotient(current_value[p], divisor[p])) :
          /\ current_value' = [current_value EXCEPT ![p] = @ - random_number]
          /\ transactions' = [transactions EXCEPT ![p] = Append(@, random_number)]
          /\ divisor' = [divisor EXCEPT ![p] = @ - 1]
    /\ UNCHANGED <<mfVars, ctodVars, forecast, pc, idx, gen_transactions, gen_caught, cta_count, target_number,
                   caught, outcome, collection, oplog>>

\* An iteration whose randint raises ValueError (empty range): the except
\* clause prints it and the function returns what it has collected.
CTARaise(p) ==
    /\ pc[p] = "cta_loop"
    /\ divisor[p] > 2
    /\ Randint(1, IntOfQuotient(current_value[p], divisor[p])) = {}
    /\ caught' = [caught EXCEPT ![p] = "ValueError"]
    /\ pc' = [pc EXCEPT ![p] = "cta_return"]
    /\ UNCHANGED <<mfVars, ctodVars, forecast, idx, gen_transactions, gen_caught, cta_count, target_number,
                   divisor, current_value, transactions, outcome, collection, oplog>>

\* divisor == 2: the remainder is split into a quarter and the rest.
CTASplit(p) ==
    /\ pc[p] = "cta_loop"
    /\ ~(divisor[p] > 2)
    /\ divisor[p] = 2
    /\ LET remaining_value == target_number[p] - Sum(transactions[p])
           first_part == FirstPart(remaining_value)
           second_part == SecondPart(remaining_value, first_part)
       IN transactions' =
              [transactions EXCEPT ![p] = @ \o <<first_part, second_part>>]
    /\ pc' = [pc EXCEPT ![p] = "cta_return"]
    /\ UNCHANGED <<mfVars, ctodVars, forecast, idx, gen_transactions, gen_caught, cta_count, target_number,
                   divisor, current_value, caught, outcome, collection, oplog>>

\* else branch (divisor is 1, or any other value below 2): the remaining
\* value is appended as it is.
CTASingle(p) ==
    /\ pc[p] = "cta_loop"
    /\ ~(divisor[p] > 2)
    /\ divisor[p] # 2
    /\ transactions' = [transactions EXCEPT ![p] = Append(@, current_value[p])]
    /\ pc' = [pc EXCEPT ![p] = "cta_return"]
    /\ UNCHANGED <<mfVars, ctodVars, forecast, idx, gen_transactions, gen_caught, cta_count, target_number,
                   divisor, current_value, caught, outcome, collection, oplog>>

generate_random_transactions_CTA(p) ==
    \/ CTADraw(p)
    \/ CTARaise(p)
    \/ CTASplit(p)
    \/ CTASingle(p)

\* ------------------------------------------------------ generate_transactions
\* for idx in range(len(combined_df)): the call for day idx (rows are 1-based
\* here), with the arguments (CTA_forecast, transactions_per_day_forecast).
GenCall(p) ==
    /\ pc[p] = "gen"
    /\ idx[p] < Len(forecast)
    /\ LET row == forecast[idx[p] + 1]
       IN /\ target_number' = [target_number EXCEPT ![p] = row[1]]
          /\ current_value' = [current_value EXCEPT ![p] = row[1]]
          /\ divisor' = [divisor EXCEPT ![p] = row[2]]
          /\ cta_count' = [cta_count EXCEPT ![p] = row[2]]
    /\ transactions' = [transactions EXCEPT ![p] = <<>>]
    /\ caught' = [caught EXCEPT ![p] = "none"]
    /\ pc' = [pc EXCEPT ![p] = "cta_loop"]
    /\ UNCHANGED <<mfVars, ctodVars, forecast, idx, gen_transactions, gen_caught, outcome, collection, oplog>>

\* transactions.append(transaction), and on to the next day.
GenAppend(p) ==
    /\ pc[p] = "cta_return"
    /\ gen_transactions' = [gen_transactions EXCEPT ![p] = Append(@, transactions[p])]
    /\ gen_caught' = [gen_caught EXCEPT ![p] = Append(@, caught[p])]
    /\ idx' = [idx EXCEPT ![p] = @ + 1]
    /\ pc' = [pc EXCEPT ![p] = "gen"]
    /\ UNCHANGED <<mfVars, ctodVars, forecast, ctaVars, outcome, collection, oplog>>

\* combined_df['transactions'] = transactions; the pipeline hands the frame
\* to save_transactions_data_to_mongodb.
GenReturn(p) ==
    /\ pc[p] = "gen"
    /\ idx[p] = Len(forecast)
    /\ idx' = [idx EXCEPT ![p] = 0]
    /\ pc' = [pc EXCEPT ![p] = "ping"]
    /\ UNCHANGED <<mfVars, ctodVars, forecast, gen_transactions, gen_caught, ctaVars, outcome, collection, oplog>>

generate_transactions(p) ==
    \/ GenCall(p)
    \/ generate_random_transactions_CTA(p)
    \/ GenAppend(p)
    \/ GenReturn(p)

\* ------------------------------------------------ create_transactions_one_day
\* Every row given the first amount of the list.
create_transactions_resampled(date, transaction_lists, times) ==
    [i \in 1 .. Len(transaction_lists) |->
        [Timestamp |-> <<date, times[i][1], times[i][2], times[i][3]>>,
         Amount |-> transaction_lists[1]]]

\* One (Timestamp, Amount) row per amount, in the order of the amounts; times
\* holds the drawn <<hour, minute, second>> of each.
create_transactions_one_day(date, transaction_lists, times) ==
    [i \in 1 .. Len(transaction_lists) |->
        [Timestamp |-> <<date, times[i][1], times[i][2], times[i][3]>>,
         Amount |-> transaction_lists[i]]]

\* Order of datetime values.
TimestampKey(ts) == ((ts[1] * 24 + ts[2]) * 60 + ts[3]) * 60 + ts[4]

Orderings(n) ==
    {f \in [1 .. n -> 1 .. n] : \A i, j \in 1 .. n : f[i] = f[j] => i = j}

\* The frame left in the order of its creation.
SortValuesSkipped(rows) == {rows}

\* df.sort_values("Timestamp").reset_index(drop=True): the rows in ascending
\* Timestamp order; the default sort is not stable, so equal timestamps may
\* come out in either order.
SortValues(rows) ==
    {[i \in 1 .. Len(rows) |-> rows[f[i]]] : f \in
        {g \in Orderings(Len(rows)) :
            \A i, j \in 1 .. Len(rows) :
                i < j => TimestampKey(rows[g[i]].Timestamp)
                            <= TimestampKey(rows[g[j]].Timestamp)}}

\* insert_many gives every document an _id of its own: here the run, the day
\* and the position of the document in the call.
WithIds(records, p, day) ==
    [i \in 1 .. Len(records) |->
        [_id |-> <<p, day, i>>, Timestamp |-> records[i].Timestamp,
         Amount |-> records[i].Amount]]

\* ----------------------------------------- save_transactions_data_to_mongodb
Ping(p) ==
    /\ pc[p] = "ping"
    /\ pc' = [pc EXCEPT ![p] = "delete"]
    /\ UNCHANGED <<mfVars, ctodVars, forecast, idx, gen_transactions, gen_caught, ctaVars, outcome, collection, oplog>>

\* The ping raises: print(e); return.
PingFail(p) ==
    /\ pc[p] = "ping"
    /\ outcome' = [outcome EXCEPT ![p] = "PingError"]
    /\ pc' = [pc EXCEPT ![p] = "done"]
    /\ UNCHANGED <<mfVars, ctodVars, forecast, idx, gen_transactions, gen_caught, ctaVars, collection, oplog>>

\* delete_many with a filter on the run's own documents instead of {}.
DeletedAllKeepOthers(p) == SelectSeq(collection, LAMBDA doc : doc._id[1] # p)

\* collection.delete_many({}): every document of the collection goes.
DeletedAll(p) == <<>>

DeleteMany(p) ==
    /\ pc[p] = "delete"
    /\ collection' = DeletedAll(p)
    /\ oplog' = Append(oplog, [op |-> "delete", by |-> p, day |-> 0])
    /\ idx' = [idx EXCEPT ![p] = 0]
    /\ pc' = [pc EXCEPT ![p] = "insert"]
    /\ UNCHANGED <<mfVars, ctodVars, forecast, gen_transactions, gen_caught, ctaVars, outcome>>

\* DeleteFail without its `return`: the step goes on to the insert loop.
DeleteFailNoReturn(p) ==
    /\ pc[p] = "delete"
    /\ outcome' = [outcome EXCEPT ![p] = "DeleteError"]
    /\ idx' = [idx EXCEPT ![p] = 0]
    /\ pc' = [pc EXCEPT ![p] = "insert"]
    /\ UNCHANGED <<mfVars, ctodVars, forecast, gen_transactions, gen_caught, ctaVars, collection, oplog>>

\* delete_many raises: the message is printed and the step returns.
DeleteFail(p) ==
    /\ pc[p] = "delete"
    /\ outcome' = [outcome EXCEPT ![p] = "DeleteError"]
    /\ pc' = [pc EXCEPT ![p] = "done"]
    /\ UNCHANGED <<mfVars, ctodVars, forecast, idx, gen_transactions, gen_caught, ctaVars, collection, oplog>>

\* The sorted records of the row the insert loop is at, for every outcome of
\* the random times and of the sort.
DayRecords(p) ==
    LET date == idx[p] + 1
        transaction_lists == gen_transactions[p][idx[p] + 1]
    IN UNION {SortValues(create_transactions_one_day(date, transaction_lists, times)) :
                times \in [1 .. Len(transaction_lists) -> TimeSamples]}

\* One iteration of the insert loop whose insert_many succeeds.
InsertMany(p) ==
    /\ pc[p] = "insert"
    /\ idx[p] < Len(forecast)
    /\ \E records \in DayRecords(p) :
          /\ records # <<>>
          /\ collection' = collection \o WithIds(records, p, idx[p] + 1)
    /\ oplog' = Append(oplog, [op |-> "insert", by |-> p, day |-> idx[p] + 1])
    /\ idx' = [idx EXCEPT ![p] = @ + 1]
    /\ UNCHANGED <<mfVars, ctodVars, forecast, pc, gen_transactions, gen_caught, ctaVars, outcome>>

\* insert_many([]) raises TypeError("documents must be a non-empty list"); the
\* except clause around the whole loop prints it and the loop is over.
InsertEmpty(p) ==
    /\ pc[p] = "insert"
    /\ idx[p] < Len(forecast)
    /\ <<>> \in DayRecords(p)
    /\ outcome' = [outcome EXCEPT ![p] = "TypeError"]
    /\ pc' = [pc EXCEPT ![p] = "done"]
    /\ UNCHANGED <<mfVars, ctodVars, forecast, idx, gen_transactions, gen_caught, ctaVars, collection, oplog>>

\* InsertFail with the try inside the loop: the day is given up and the loop
\* goes on with the next row.
InsertFailContinue(p) ==
    /\ pc[p] = "insert"
    /\ idx[p] < Len(forecast)
    /\ <<>> \notin DayRecords(p)
    /\ outcome' = [outcome EXCEPT ![p] = "InsertError"]
    /\ idx' = [idx EXCEPT ![p] = @ + 1]
    /\ UNCHANGED <<mfVars, ctodVars, forecast, pc, gen_transactions, gen_caught, ctaVars, collection, oplog>>

\* insert_many raises a storage error: nothing of the day is written, the
\* except clause prints it and the loop is over.
InsertFail(p) ==
    /\ pc[p] = "insert"
    /\ idx[p] < Len(forecast)
    /\ <<>> \notin DayRecords(p)
    /\ outcome' = [outcome EXCEPT ![p] = "InsertError"]
    /\ pc' = [pc EXCEPT ![p] = "done"]
    /\ UNCHANGED <<mfVars, ctodVars, forecast, idx, gen_transactions, gen_caught, ctaVars, collection, oplog>>

\* iterrows is exhausted: the step returns.
SaveReturn(p) ==
    /\ pc[p] = "insert"
    /\ idx[p] = Len(forecast)
    /\ pc' = [pc EXCEPT ![p] = "done"]
    /\ UNCHANGED <<mfVars, ctodVars, forecast, idx, gen_transactions, gen_caught, ctaVars, outcome, collection, oplog>>

save_transactions_data_to_mongodb(p) ==
    \/ Ping(p)
    \/ PingFail(p)
    \/ DeleteMany(p)
    \/ DeleteFail(p)
    \/ InsertMany(p)
    \/ InsertEmpty(p)
    \/ InsertFail(p)
    \/ SaveReturn(p)

\* run_synthetic_data_pipeline from generate_transactions on.
run_synthetic_data_pipeline(p) ==
    \/ generate_transactions(p)
    \/ save_transactions_data_to_mongodb(p)

\* No call of modify_forecasts: its defaults, nothing printed.
NoModify ==
    /\ df = <<>>
    /\ df_in = <<>>
    /\ trx_add = 0
    /\ trx_mul = 1
    /\ CTA_add = 0
    /\ CTA_mul = 1
    /\ mf_pc = "return"
    /\ mf_printed = "none"

\* No call of create_transactions_one_day on its own.
NoAssign ==
    /\ ctod_date = 0
    /\ ctod_lists = <<>>
    /\ ctod_df = <<>>
    /\ ctod_pc = "return"

\* State of a run that has not called anything yet.
Idle ==
    /\ idx = [p \in Procs |-> 0]
    /\ gen_transactions = [p \in Procs |-> <<>>]
    /\ gen_caught = [p \in Procs |-> <<>>]
    /\ outcome = [p \in Procs |-> "none"]
    /\ collection = <<>>
    /\ oplog = <<>>

\* The function alone: one call with arguments drawn from the bounds.
InitCTA ==
    /\ Idle
    /\ NoModify
    /\ NoAssign
    /\ forecast = <<>>
    /\ \E t \in -MaxNegTarget .. MaxTarget, c \in -MaxNegCount .. MaxCount :
          /\ target_number = [p \in Procs |-> t]
          /\ current_value = [p \in Procs |-> t]
          /\ divisor = [p \in Procs |-> c]
          /\ cta_count = [p \in Procs |-> c]
    /\ transactions = [p \in Procs |-> <<>>]
    /\ caught = [p \in Procs |-> "none"]
    /\ pc = [p \in Procs |-> IF p = 1 THEN "cta_loop" ELSE "done"]

NextCTA ==
    \/ CTADraw(1)
    \/ CTARaise(1)
    \/ CTASplit(1)
    \/ CTASingle(1)

SpecCTA == InitCTA /\ [][NextCTA]_vars

\* --------------------------------------------------------- the pipeline runs
NoCall ==
    /\ target_number = [p \in Procs |-> 0]
    /\ current_value = [p \in Procs |-> 0]
    /\ divisor = [p \in Procs |-> 0]
    /\ cta_count = [p \in Procs |-> 0]
    /\ transactions = [p \in Procs |-> <<>>]
    /\ caught = [p \in Procs |-> "none"]
    /\ pc = [p \in Procs |-> "gen"]

\* The series of the runs: any of the sample points on every day, with at
\* most one day of three records.
Init ==
    /\ Idle
    /\ NoCall
    /\ NoModify
    /\ NoAssign
    /\ forecast \in [1 .. NumDays -> ForecastSamples]
    /\ Cardinality({d \in 1 .. NumDays : forecast[d] = <<3, 3>>}) <= 1

\* main() called twice, the second call after the first has returned.
InTurn(p) == \A q \in Procs : q < p => pc[q] = "done"

Next ==
    \/ \E p \in Procs : InTurn(p) /\ GenCall(p)
    \/ \E p \in Procs : InTurn(p) /\ CTADraw(p)
    \/ \E p \in Procs : InTurn(p) /\ CTARaise(p)
    \/ \E p \in Procs : InTurn(p) /\ CTASplit(p)
    \/ \E p \in Procs : InTurn(p) /\ CTASingle(p)
    \/ \E p \in Procs : InTurn(p) /\ GenAppend(p)
    \/ \E p \in Procs : InTurn(p) /\ GenReturn(p)
    \/ \E p \in Procs : InTurn(p) /\ Ping(p)
    \/ \E p \in Procs : InTurn(p) /\ PingFail(p)
    \/ \E p \in Procs : InTurn(p) /\ DeleteMany(p)
    \/ \E p \in Procs : InTurn(p) /\ DeleteFail(p)
    \/ \E p \in Procs : InTurn(p) /\ InsertMany(p)
    \/ \E p \in Procs : InTurn(p) /\ InsertEmpty(p)
    \/ \E p \in Procs : InTurn(p) /\ InsertFail(p)
    \/ \E p \in Procs : InTurn(p) /\ SaveReturn(p)

Spec == Init /\ [][Next]_vars

\* Forecast points of the interleaved runs: a day of one record, a day whose
\* total is smaller than its count and a day of three records (at most one
\* day of a series has three).
ConcSamples == {<<3, 1>>, <<2, 3>>, <<3, 3>>}

InitConc ==
    /\ Idle
    /\ NoCall
    /\ NoModify
    /\ NoAssign
    /\ forecast \in [1 .. NumDays -> ConcSamples]
    /\ Cardinality({d \in 1 .. NumDays : forecast[d] = <<3, 3>>}) <= 1

GenPCs == {"gen", "cta_loop", "cta_return"}

\* Two runs at once (two workers serving /make_transactions).  The steps of
\* generate_transactions touch only the run's own frame, so they commute with
\* every step of the other run: the second run generates after the first, and
\* the store calls of the two runs interleave freely.
Scheduled(p) ==
    IF pc[p] \in GenPCs
        THEN \A q \in Procs : q < p => pc[q] \notin GenPCs
        ELSE \A q \in Procs : pc[q] \notin GenPCs

NextConc ==
    \/ \E p \in Procs : Scheduled(p) /\ GenCall(p)
    \/ \E p \in Procs : Scheduled(p) /\ CTADraw(p)
    \/ \E p \in Procs : Scheduled(p) /\ CTARaise(p)
    \/ \E p \in Procs : Scheduled(p) /\ CTASplit(p)
    \/ \E p \in Procs : Scheduled(p) /\ CTASingle(p)
    \/ \E p \in Procs : Scheduled(p) /\ GenAppend(p)
    \/ \E p \in Procs : Scheduled(p) /\ GenReturn(p)
    \/ \E p \in Procs : Scheduled(p) /\ Ping(p)
    \/ \E p \in Procs : Scheduled(p) /\ PingFail(p)
    \/ \E p \in Procs : Scheduled(p) /\ DeleteMany(p)
    \/ \E p \in Procs : Scheduled(p) /\ DeleteFail(p)
    \/ \E p \in Procs : Scheduled(p) /\ InsertMany(p)
    \/ \E p \in Procs : Scheduled(p) /\ InsertEmpty(p)
    \/ \E p \in Procs : Scheduled(p) /\ InsertFail(p)
    \/ \E p \in Procs : Scheduled(p) /\ SaveReturn(p)

SpecConc == InitConc /\ [][NextConc]_vars

\* ------------------------------------------------------------ modify_forecasts
\* The columns of the combined forecast frame.
TrxColumn == "transactions_per_day_forecast"
CTAColumn == "CTA_forecast"
Metrics == {TrxColumn, CTAColumn}

\* Values a point of the series is drawn from, and the arguments
\* <<trx_add, trx_mul, CTA_add, CTA_mul>> of a call: the defaults, the same
\* adjustment of both metrics, the call of run_synthetic_data_pipeline, and
\* a negative addend with a zero multiplier.
TrxSamples == {10, 0, -3}
CTASamples == {100, 7}
ArgSamples == {<<0, 1, 0, 1>>, <<5, 5, 5, 5>>, <<5, 5, 5, 19>>, <<-2, 3, 4, 0>>}

\* Multiplication before addition.
AdjustMulFirst(x, add, mul) == x * mul + add

\* (df[column] + add) * mul, for one value of the column.
Adjust(x, add, mul) == (x + add) * mul

\* Line 86: the count column is read, adjusted and assigned.
ModifyTrx ==
    /\ mf_pc = "trx"
    /\ TrxColumn \in DOMAIN df
    /\ df' = [df EXCEPT ![TrxColumn] =
                 [i \in 1 .. Len(@) |-> Adjust(@[i], trx_add, trx_mul)]]
    /\ mf_pc' = "CTA"
    /\ UNCHANGED <<runVars, ctodVars, df_in, trx_add, trx_mul, CTA_add, CTA_mul, mf_printed>>

\* Line 86 on a frame without the count column: df[...] raises KeyError, the
\* except clause of line 88 prints it, and line 87 is never run.
ModifyTrxKeyError ==
    /\ mf_pc = "trx"
    /\ TrxColumn \notin DOMAIN df
    /\ mf_printed' = TrxColumn
    /\ mf_pc' = "return"
    /\ UNCHANGED <<runVars, ctodVars, df, df_in, trx_add, trx_mul, CTA_add, CTA_mul>>

\* Line 87: the value column is read, adjusted and assigned.
ModifyCTA ==
    /\ mf_pc = "CTA"
    /\ CTAColumn \in DOMAIN df
    /\ df' = [df EXCEPT ![CTAColumn] =
                 [i \in 1 .. Len(@) |-> Adjust(@[i], CTA_add, CTA_mul)]]
    /\ mf_pc' = "return"
    /\ UNCHANGED <<runVars, ctodVars, df_in, trx_add, trx_mul, CTA_add, CTA_mul, mf_printed>>

\* Line 87 on a frame without the value column.
ModifyCTAKeyError ==
    /\ mf_pc = "CTA"
    /\ CTAColumn \notin DOMAIN df
    /\ mf_printed' = CTAColumn
    /\ mf_pc' = "return"
    /\ UNCHANGED <<runVars, ctodVars, df, df_in, trx_add, trx_mul, CTA_add, CTA_mul>>

modify_forecasts ==
    \/ ModifyTrx
    \/ ModifyTrxKeyError
    \/ ModifyCTA
    \/ ModifyCTAKeyError

\* No run of the pipeline.
NoRun ==
    /\ Idle
    /\ forecast = <<>>
    /\ target_number = [p \in Procs |-> 0]
    /\ current_value = [p \in Procs |-> 0]
    /\ divisor = [p \in Procs |-> 0]
    /\ cta_count = [p \in Procs |-> 0]
    /\ transactions = [p \in Procs |-> <<>>]
    /\ caught = [p \in Procs |-> "none"]
    /\ pc = [p \in Procs |-> "done"]

\* One call of modify_forecasts on a series of up to NumDays points, with
\* any of its two metric columns present or missing.
InitModify ==
    /\ NoRun
    /\ NoAssign
    /\ \E n \in 0 .. NumDays, cols \in SUBSET Metrics :
          \E trx \in [1 .. n -> TrxSamples], cta \in [1 .. n -> CTASamples] :
              df = [c \in cols \cup {"timestamp"} |->
                       IF c = TrxColumn THEN trx
                       ELSE IF c = CTAColumn THEN cta
                       ELSE [i \in 1 .. n |-> i]]
    /\ df_in = df
    /\ \E a \in ArgSamples :
          /\ trx_add = a[1]
          /\ trx_mul = a[2]
          /\ CTA_add = a[3]
          /\ CTA_mul = a[4]
    /\ mf_pc = "trx"
    /\ mf_printed = "none"

NextModify ==
    \/ ModifyTrx
    \/ ModifyTrxKeyError
    \/ ModifyCTA
    \/ ModifyCTAKeyError

SpecModify == InitModify /\ [][NextModify]_vars

\* ------------------------------------- create_transactions_one_day on its own
\* Dates (day numbers) and lists of amounts of a call.
DateSamples == {1, 2}
AmountLists == {<<>>, <<5>>, <<3, 7>>, <<4, 4>>, <<0, -1>>}

\* The <<hour, minute, second>> draws of lines 59-61: every hour, every
\* minute and every second that randint can return is drawn, each with the
\* other two at an end of their ranges.
DrawnTimes ==
    {<<h, 0, 0>> : h \in Randint(0, 23)}
        \cup {<<0, m, 59>> : m \in Randint(0, 59)}
        \cup {<<23, 59, s>> : s \in Randint(0, 59)}

\* The call: one draw of a time per amount, and the frame returned.
Assign ==
    /\ ctod_pc = "call"
    /\ \E times \in [1 .. Len(ctod_lists) -> DrawnTimes] :
          ctod_df' = create_transactions_one_day(ctod_date, ctod_lists, times)
    /\ ctod_pc' = "return"
    /\ UNCHANGED <<runVars, mfVars, ctod_date, ctod_lists>>

InitAssign ==
    /\ NoRun
    /\ NoModify
    /\ ctod_date \in DateSamples
    /\ ctod_lists \in AmountLists
    /\ ctod_df = <<>>
    /\ ctod_pc = "call"

NextAssign == Assign

SpecAssign == InitAssign /\ [][NextAssign]_vars

\* ===================================================================== claims
\* The decomposition has returned (line 51 is the only way out of it).
Returned(p) == pc[p] = "cta_return"

\* C1: for every target_total >= 0 and every count >= 3, whatever the draws,
\* the returned list sums to target_total and has count elements.
C1_SumAndLength ==
    \A p \in Procs :
        (Returned(p) /\ target_number[p] >= 0 /\ cta_count[p] >= 3)
            => /\ Sum(transactions[p]) = target_number[p]
               /\ Len(transactions[p]) = cta_count[p]

\* The case C1 fails on: a total below the count, nothing returned.
C1_Failing ==
    \E p \in Procs :
        /\ Returned(p)
        /\ target_number[p] = 2
        /\ cta_count[p] = 3
        /\ transactions[p] = <<>>

\* What the code does keep of C1: the sum and the length are right whenever
\* the total is at least the count.
C1_HoldsFromCountUp ==
    \A p \in Procs :
        (Returned(p) /\ cta_count[p] >= 3 /\ target_number[p] >= cta_count[p])
            => /\ Sum(transactions[p]) = target_number[p]
               /\ Len(transactions[p]) = cta_count[p]

\* C5: with target_total < 0, or with a draw whose upper bound is below 1, the
\* function ends in an explicit error; it never comes back with a normal
\* result (one holding negative amounts, or empty, or truncated).
C5_ExplicitError ==
    \A p \in Procs :
        Returned(p) => ~(target_number[p] < 0 \/ caught[p] = "ValueError")

\* The two cases C5 fails on: negative amounts returned, and an empty list
\* returned after the draw's range was empty.
C5_NegativeReturned ==
    \E p \in Procs :
        /\ Returned(p)
        /\ target_number[p] < 0
        /\ \E i \in 1 .. Len(transactions[p]) : transactions[p][i] < 0

\* C9: for every target_total >= 0 and every count >= 1, whatever the draws,
\* every element of the returned list is a non-negative integer.
C9_NonNegative ==
    \A p \in Procs :
        (Returned(p) /\ target_number[p] >= 0 /\ cta_count[p] >= 1)
            => \A i \in 1 .. Len(transactions[p]) : transactions[p][i] \in Nat

\* A decomposition of five amounts, three of them drawn, has returned.
C9_Witness ==
    \E p \in Procs :
        /\ Returned(p)
        /\ cta_count[p] = 5
        /\ Len(transactions[p]) = 5
        /\ Sum(transactions[p]) = target_number[p]
        /\ target_number[p] = 8

\* C10: for count == 1 the result is [target_total]; for count == 2 it is
\* the two parts floor(target_total / 4) and target_total minus that, which
\* sum to target_total; no draw is made for either.
C10_SmallCounts ==
    \A p \in Procs :
        Returned(p) =>
            /\ cta_count[p] = 1 => transactions[p] = <<target_number[p]>>
            /\ cta_count[p] = 2 =>
                  /\ Len(transactions[p]) = 2
                  /\ 4 * transactions[p][1] <= target_number[p]
                  /\ target_number[p] < 4 * transactions[p][1] + 4
                  /\ transactions[p][2] = target_number[p] - transactions[p][1]
                  /\ transactions[p][1] + transactions[p][2] = target_number[p]
            /\ cta_count[p] \in {1, 2} => caught[p] = "none"

\* A call with count 2 has returned the parts 1 and 6 of 7; a call with
\* count 1 has returned its total.
C10_Witness ==
    \E p \in Procs :
        /\ Returned(p)
        /\ cta_count[p] = 2
        /\ target_number[p] = 7
        /\ transactions[p] = <<1, 6>>

\* ------------------------------------------------------- claims on the store
\* The errors of the store itself, as save_transactions_data_to_mongodb
\* prints them.
StorageErrors == {"PingError", "DeleteError", "InsertError"}

NoStorageError == \A p \in Procs : outcome[p] \notin StorageErrors

AllDone == \A p \in Procs : pc[p] = "done"

\* The documents of day d of run p that the collection holds.
DocsOf(p, d) ==
    SelectSeq(collection, LAMBDA doc : doc._id[1] = p /\ doc._id[2] = d)

DocsOfRun(p) == SelectSeq(collection, LAMBDA doc : doc._id[1] = p)

Occurrences(s, a) == Cardinality({i \in 1 .. Len(s) : s[i] = a})

\* The collection holds day d of run p: one document per amount of the day's
\* list, each amount as often as the list has it.
DayPersisted(p, d) ==
    /\ d <= Len(gen_transactions[p])
    /\ LET docs == DocsOf(p, d)
           amounts == [i \in 1 .. Len(docs) |-> docs[i].Amount]
           day == gen_transactions[p][d]
       IN /\ Len(amounts) = Len(day)
          /\ \A i \in 1 .. Len(day) :
                Occurrences(amounts, day[i]) = Occurrences(day, day[i])

AllDaysPersisted(p) == \A d \in 1 .. Len(forecast) : DayPersisted(p, d)

\* Place of the last delete in the store's log, 0 when there is none.
LastDeleteIndex ==
    LET deletes == {k \in 1 .. Len(oplog) : oplog[k].op = "delete"}
    IN IF deletes = {} THEN 0
       ELSE CHOOSE k \in deletes : \A j \in deletes : j <= k

\* Run p made the last delete: the collection is in the hands of p.
Current(p) == LastDeleteIndex > 0 /\ oplog[LastDeleteIndex].by = p

\* The inserts the store applied after the last delete.
InsertsSinceDelete == LastDeleteIndex + 1 .. Len(oplog)

\* The collection holds what was inserted since the last delete, and only
\* that.
CollectionIsWhatWasWritten ==
    /\ \A k \in InsertsSinceDelete : DayPersisted(oplog[k].by, oplog[k].day)
    /\ \A i \in 1 .. Len(collection) :
          \E k \in InsertsSinceDelete :
              /\ oplog[k].by = collection[i]._id[1]
              /\ oplog[k].day = collection[i]._id[2]

\* In the log, the delete of every run comes before all of its inserts.
DeleteBeforeInserts ==
    \A k \in 1 .. Len(oplog) :
        oplog[k].op = "insert" =>
            \E j \in 1 .. k - 1 : oplog[j].op = "delete" /\ oplog[j].by = oplog[k].by

\* C2: per-day failures are isolated over a whole run: when the decomposition
\* of a day fails, only that day is dropped; every other day, before and
\* after it, is synthesized and inserted into the collection (here: every day
\* with a positive count whose decomposition reported nothing, in a run the
\* store never failed).
C2_Isolated ==
    \A p \in Procs :
        (pc[p] = "done" /\ outcome[p] \notin StorageErrors /\ Current(p))
            => \A d \in 1 .. Len(forecast) :
                  (gen_caught[p][d] = "none" /\ forecast[d][2] >= 1)
                      => DayPersisted(p, d)

\* The case C2 fails on: the first day's decomposition failed, the second
\* day's did not, the run is over and the store never failed, and the second
\* day is not in the collection.
C2_LaterDayLost ==
    \E p \in Procs :
        /\ pc[p] = "done"
        /\ outcome[p] \notin StorageErrors
        /\ Current(p)
        /\ gen_caught[p][1] = "ValueError"
        /\ gen_caught[p][2] = "none"
        /\ forecast[2][2] >= 1
        /\ gen_transactions[p][2] # <<>>
        /\ DocsOf(p, 2) = <<>>

\* C3: a batch is never partially persisted: once the run has deleted the old
\* contents, the collection holds none or all of the run's days.
C3_NoneOrAll ==
    \A p \in Procs :
        Current(p) => (collection = <<>> \/ AllDaysPersisted(p))

\* C3 as amended: once the run has deleted the old contents (and no other run
\* writes), the collection holds exactly the days the insert loop has been
\* through, day after day: the first idx days of the run, whole, and nothing
\* of a later day or of another run.
C3_DayPrefix ==
    \A p \in Procs :
        Current(p) =>
            /\ pc[p] \in {"insert", "done"}
            /\ \A d \in 1 .. Len(forecast) :
                  IF d <= idx[p] THEN DayPersisted(p, d) ELSE DocsOf(p, d) = <<>>
            /\ \A i \in 1 .. Len(collection) : collection[i]._id[1] = p
            /\ \A i, j \in 1 .. Len(collection) :
                  i < j => collection[i]._id[2] <= collection[j]._id[2]

\* The run is between two daily inserts: the first day is in the collection,
\* the second, which has records, is not yet.
C3_Witness ==
    \E p \in Procs :
        /\ Current(p)
        /\ pc[p] = "insert"
        /\ idx[p] = 1
        /\ DocsOf(p, 1) # <<>>
        /\ gen_transactions[p][2] # <<>>
        /\ DocsOf(p, 2) = <<>>

\* C4: two runs in sequence and no storage step failing: the delete of each
\* run precedes all of its inserts, and after the second run the collection
\* holds exactly the second batch's records and none of the first.
C4_SecondBatchOnly ==
    (AllDone /\ NoStorageError) =>
        /\ DeleteBeforeInserts
        /\ DocsOfRun(1) = <<>>
        /\ AllDaysPersisted(2)

\* What the code does keep of C4: the deletes come first and nothing of the
\* first batch is left.
C4_NoResidue ==
    (AllDone /\ NoStorageError) =>
        /\ DeleteBeforeInserts
        /\ DocsOfRun(1) = <<>>
        /\ Current(2)

\* The case C4 fails on: both runs are over, the store never failed, and a
\* day of the second batch that has records is not in the collection.
C4_SecondBatchCut ==
    /\ AllDone
    /\ NoStorageError
    /\ \E d \in 1 .. Len(forecast) :
          gen_transactions[2][d] # <<>> /\ DocsOf(2, d) = <<>>

\* C6: a day whose adjusted count is zero or negative is reported and
\* skipped: nothing is synthesized for it and nothing of it is persisted.
C6_NonPositiveCountSkipped ==
    \A p \in Procs : \A d \in 1 .. Len(forecast) :
        forecast[d][2] <= 0 =>
            /\ d <= Len(gen_transactions[p]) => gen_transactions[p][d] = <<>>
            /\ DocsOf(p, d) = <<>>

\* The case C6 fails on: a day with a count of zero or less has a document in
\* the collection, and nothing was reported for it.
C6_Persisted ==
    \E p \in Procs : \E d \in 1 .. Len(forecast) :
        /\ forecast[d][2] <= 0
        /\ DocsOf(p, d) # <<>>
        /\ gen_caught[p][d] = "none"

\* C7: when the delete fails the step returns without any insert: the run has
\* written nothing, and the collection holds what was there, the stale
\* records of the run before, and no record of the new batch.
C7_DeleteFailureKeepsStale ==
    \A p \in Procs :
        outcome[p] = "DeleteError" =>
            /\ pc[p] = "done"
            /\ \A k \in 1 .. Len(oplog) : oplog[k].by # p
            /\ DocsOfRun(p) = <<>>
            /\ (\A q \in Procs : q > p => DocsOfRun(q) = <<>> /\ ~Current(q))
                  => \A q \in Procs : q < p => Len(DocsOfRun(q)) = Len(collection)
            /\ CollectionIsWhatWasWritten

\* The delete of the second run has failed over the records the first run
\* had stored.
C7_Witness ==
    /\ outcome[2] = "DeleteError"
    /\ pc[2] = "done"
    /\ Len(collection) >= 2
    /\ AllDaysPersisted(1)

\* C8: two interleaved runs and no storage step failing: the last writer
\* wins.  After both have finished the collection holds all records of the
\* run whose delete came last, and any other record is of a per-day insert of
\* the other run made after that delete.
C8_LastWriterWins ==
    (AllDone /\ NoStorageError) =>
        \A p \in Procs :
            Current(p) =>
                /\ AllDaysPersisted(p)
                /\ \A i \in 1 .. Len(collection) :
                      collection[i]._id[1] # p =>
                          \E k \in InsertsSinceDelete :
                              /\ oplog[k].by = collection[i]._id[1]
                              /\ oplog[k].day = collection[i]._id[2]

\* What the code does keep of C8: whatever is in the collection at the end
\* was inserted after the last delete, and every such insert is there whole.
C8_ResidueOnly ==
    (AllDone /\ NoStorageError) => CollectionIsWhatWasWritten

\* Interleaved residue: both runs are over, the store never failed, and the
\* collection holds records of both runs.
C8_Residue ==
    /\ AllDone
    /\ NoStorageError
    /\ DocsOfRun(1) # <<>>
    /\ DocsOfRun(2) # <<>>

\* The case C8 fails on: the run that deleted last has a day with records
\* that is not in the collection.
C8_LastWriterCut ==
    /\ AllDone
    /\ NoStorageError
    /\ \E p \in Procs : \E d \in 1 .. Len(forecast) :
          Current(p) /\ gen_transactions[p][d] # <<>> /\ DocsOf(p, d) = <<>>

\* ------------------------------------------------ more on the decomposition
\* C16: with count >= 3 a draw can fail at the first iteration only.  With
\* target_total >= count every iteration has floor(remaining / divisor) >= 1,
\* every drawn piece lies in 1 .. floor(remaining / divisor) and the loop
\* gets to divisor 2; with target_total < count the first draw fails and the
\* empty list is returned.  So the returned list has 0 or count elements.
C16_DrawFailsOnlyFirst ==
    \A p \in Procs :
        cta_count[p] >= 3 =>
            /\ (pc[p] = "cta_loop" /\ divisor[p] > 2 /\ target_number[p] >= cta_count[p])
                  => IntOfQuotient(current_value[p], divisor[p]) >= 1
            /\ \A i \in 1 .. Len(transactions[p]) :
                  i <= cta_count[p] - 2 =>
                      /\ transactions[p][i] >= 1
                      /\ transactions[p][i] * (cta_count[p] - i + 1)
                            <= target_number[p] - Sum(SubSeq(transactions[p], 1, i - 1))
            /\ caught[p] = "ValueError" =>
                  /\ transactions[p] = <<>>
                  /\ divisor[p] = cta_count[p]
                  /\ target_number[p] < cta_count[p]
            /\ Returned(p) =>
                  /\ target_number[p] >= cta_count[p] =>
                        /\ caught[p] = "none"
                        /\ divisor[p] = 2
                        /\ Len(transactions[p]) = cta_count[p]
                  /\ target_number[p] < cta_count[p] =>
                        /\ caught[p] = "ValueError"
                        /\ transactions[p] = <<>>
                  /\ Len(transactions[p]) \in {0, cta_count[p]}

\* A descent of four draws, the first of them above 1, has come to
\* divisor 2 and returned six amounts.
C16_Witness ==
    \E p \in Procs :
        /\ Returned(p)
        /\ cta_count[p] = 6
        /\ divisor[p] = 2
        /\ Len(transactions[p]) = 6
        /\ transactions[p][1] > 1

\* ------------------------------------------------------- more on the store
\* C13: every day's sub-batch goes into the collection in non-decreasing
\* Timestamp order, whatever times were drawn: the documents of one insert
\* (one day of one run) stand in ascending order of Timestamp, all on the
\* date of their day.
C13_DaySorted ==
    \A i \in 1 .. Len(collection) : \A j \in i + 1 .. Len(collection) :
        (/\ collection[i]._id[1] = collection[j]._id[1]
         /\ collection[i]._id[2] = collection[j]._id[2])
            => /\ TimestampKey(collection[i].Timestamp)
                    <= TimestampKey(collection[j].Timestamp)
               /\ collection[i].Timestamp[1] = collection[i]._id[2]
               /\ collection[j].Timestamp[1] = collection[j]._id[2]

\* The sort has exchanged two records: the day's amounts are 0 then 2, the
\* later time went to the first, and the collection holds 2 before 0.
C13_Witness ==
    \E p \in Procs : \E d \in 1 .. Len(forecast) :
        /\ d <= Len(gen_transactions[p])
        /\ gen_transactions[p][d] = <<0, 2>>
        /\ Len(DocsOf(p, d)) = 2
        /\ DocsOf(p, d)[1].Amount = 2
        /\ DocsOf(p, d)[2].Amount = 0
        /\ TimestampKey(DocsOf(p, d)[1].Timestamp)
              < TimestampKey(DocsOf(p, d)[2].Timestamp)

\* Run p has returned from save_transactions_data_to_mongodb and no later run
\* has written to the collection since.
LastReturned(p) ==
    /\ pc[p] = "done"
    /\ \A k \in 1 .. Len(oplog) : oplog[k].by <= p

\* C15: after save_transactions_data_to_mongodb has returned, whatever ping,
\* delete or insert failed, the collection has one of two shapes: its prior
\* contents, unchanged (the ping or the delete failed), or exactly the
\* records of the first k days of the new batch, in series order, for some
\* 0 <= k <= number of days.  Old and new records are never mixed and no day
\* is there without every day before it.
C15_TwoShapes ==
    \A p \in Procs :
        LastReturned(p) =>
            IF outcome[p] \in {"PingError", "DeleteError"}
                THEN /\ \A k \in 1 .. Len(oplog) : oplog[k].by # p
                     /\ \A i \in 1 .. Len(collection) : collection[i]._id[1] < p
                     /\ CollectionIsWhatWasWritten
                ELSE /\ \A i \in 1 .. Len(collection) : collection[i]._id[1] = p
                     /\ \E k \in 0 .. Len(forecast) :
                           /\ k = idx[p]
                           /\ \A d \in 1 .. Len(forecast) :
                                 IF d <= k THEN DayPersisted(p, d)
                                           ELSE DocsOf(p, d) = <<>>
                     /\ \A i \in 1 .. Len(collection) : \A j \in i + 1 .. Len(collection) :
                           collection[i]._id[2] <= collection[j]._id[2]

\* The second run has returned after its insert of the second day failed:
\* the collection holds its first day and nothing else.
C15_Witness ==
    /\ LastReturned(2)
    /\ outcome[2] = "InsertError"
    /\ idx[2] = 1
    /\ DocsOf(2, 1) # <<>>
    /\ Len(DocsOf(2, 1)) = Len(collection)
    /\ oplog[1].by = 1

\* ------------------------------------------------------- the adjustment
\* modify_forecasts has returned (line 92).
Modified == mf_pc = "return" /\ df_in # <<>>

\* C11: on a series with both metrics, modify_forecasts replaces at every
\* point the count by (old_count + trx_add) * trx_mul and the value by
\* (old_value + CTA_add) * CTA_mul, addition first, and touches nothing
\* else; a point {count 10, value 100} with add 5 and mul 5 for both becomes
\* {count 75, value 525}; add 0 and mul 1 leave the series unchanged.
C11_AddThenMultiply ==
    (Modified /\ Metrics \subseteq DOMAIN df_in) =>
        /\ mf_printed = "none"
        /\ DOMAIN df = DOMAIN df_in
        /\ df["timestamp"] = df_in["timestamp"]
        /\ Len(df[TrxColumn]) = Len(df_in[TrxColumn])
        /\ Len(df[CTAColumn]) = Len(df_in[CTAColumn])
        /\ \A i \in 1 .. Len(df_in[TrxColumn]) :
              /\ df[TrxColumn][i] = (df_in[TrxColumn][i] + trx_add) * trx_mul
              /\ df[CTAColumn][i] = (df_in[CTAColumn][i] + CTA_add) * CTA_mul
              /\ (/\ df_in[TrxColumn][i] = 10 /\ df_in[CTAColumn][i] = 100
                  /\ trx_add = 5 /\ trx_mul = 5 /\ CTA_add = 5 /\ CTA_mul = 5)
                    => (df[TrxColumn][i] = 75 /\ df[CTAColumn][i] = 525)
        /\ (trx_add = 0 /\ trx_mul = 1 /\ CTA_add = 0 /\ CTA_mul = 1) => df = df_in

\* The point {10, 100} adjusted by add 5, mul 5 has become {75, 525}.
C11_Witness ==
    /\ Modified
    /\ Metrics \subseteq DOMAIN df_in
    /\ Len(df_in[TrxColumn]) = 2
    /\ df_in[TrxColumn][1] = 10 /\ df_in[CTAColumn][1] = 100
    /\ trx_add = 5 /\ trx_mul = 5 /\ CTA_add = 5 /\ CTA_mul = 5
    /\ df[TrxColumn][1] = 75 /\ df[CTAColumn][1] = 525

\* The metric column is in the frame and holds the adjusted values.
Transformed(column, add, mul) ==
    /\ column \in DOMAIN df
    /\ Len(df[column]) = Len(df_in[column])
    /\ \A i \in 1 .. Len(df_in[column]) :
          df[column][i] = (df_in[column][i] + add) * mul

\* C12: when the series lacks the column of one metric, modify_forecasts
\* reports the missing column, skips only that metric, and still transforms
\* the other metric, whose column is there.
C12_Independent ==
    Modified =>
        /\ (TrxColumn \notin DOMAIN df_in /\ CTAColumn \in DOMAIN df_in) =>
              /\ mf_printed = TrxColumn
              /\ TrxColumn \notin DOMAIN df
              /\ Transformed(CTAColumn, CTA_add, CTA_mul)
        /\ (CTAColumn \notin DOMAIN df_in /\ TrxColumn \in DOMAIN df_in) =>
              /\ mf_printed = CTAColumn
              /\ CTAColumn \notin DOMAIN df
              /\ Transformed(TrxColumn, trx_add, trx_mul)

\* The count column is missing, the value column is there, and the call has
\* returned the value 100 as it was although add 5, mul 5 make it 525.
C12_ValueSkipped ==
    /\ Modified
    /\ TrxColumn \notin DOMAIN df_in
    /\ CTAColumn \in DOMAIN df_in
    /\ df_in[CTAColumn] = <<100>>
    /\ CTA_add = 5 /\ CTA_mul = 5
    /\ mf_printed = TrxColumn
    /\ df = df_in

\* ------------------------------------------------- the times of one day
\* C14: create_transactions_one_day(date, amounts) returns len(amounts)
\* records; every Timestamp is on the date, with hour in 0..23, minute in
\* 0..59 and second in 0..59; the i-th record carries the i-th amount.
C14_OnePerAmount ==
    ctod_pc = "return" /\ ctod_date # 0 =>
        /\ Len(ctod_df) = Len(ctod_lists)
        /\ \A i \in 1 .. Len(ctod_df) :
              /\ ctod_df[i].Timestamp[1] = ctod_date
              /\ ctod_df[i].Timestamp[2] \in 0 .. 23
              /\ ctod_df[i].Timestamp[3] \in 0 .. 59
              /\ ctod_df[i].Timestamp[4] \in 0 .. 59
              /\ ctod_df[i].Amount = ctod_lists[i]

\* Two different amounts have got their records, the first at a later time
\* of the day than the second.
C14_Witness ==
    /\ ctod_pc = "return"
    /\ ctod_lists = <<3, 7>>
    /\ Len(ctod_df) = 2
    /\ ctod_df[1].Amount = 3 /\ ctod_df[2].Amount = 7
    /\ TimestampKey(ctod_df[1].Timestamp) > TimestampKey(ctod_df[2].Timestamp)

====
